---- MODULE Spec2Model ----
(***************************************************************************)
(* Model of multi-claude: the cross-account access guard                   *)
(* (guard_cross_access.py), its PreToolUse hook, and the launcher          *)
(* (launcher.py) that configures accounts and starts the guarded process, *)
(* and the account questions of the setup program (setup.py).              *)
(*                                                                         *)
(* Representation.  A Python str whose type is static in the source (an    *)
(* environment value, a raw or normalized directory) is a sequence of      *)
(* one-character strings: "/a" is <<"/", "a">>.  A Python value whose type *)
(* is dynamic (anything json.load returns, the Optional results of         *)
(* _msys2_form and _contains_any_forbidden) is a tagged record:            *)
(*   [t |-> "NoneType"], [t |-> "bool", v |-> TRUE], [t |-> "int", v |-> 5]*)
(*   [t |-> "str", v |-> <<"/", "a">>], [t |-> "list", v |-> <<...>>],     *)
(*   [t |-> "dict", v |-> [k \in Keys |-> value]].                         *)
(* A mapping (os.environ, a JSON object) is a function whose domain is the *)
(* set of keys that are present.                                           *)
(***************************************************************************)
EXTENDS FiniteSets, Integers, Sequences, TLC

(***************************************************************************)
(* Bounds of the input space.                                              *)
(***************************************************************************)
MaxEnvLen == 2
MaxTextLen == 2
MaxRawLen == 5
MaxAccounts == 3

(***************************************************************************)
(* Python str primitives used by the guard.                                *)
(***************************************************************************)
UpperLetters == <<"A", "B", "C", "D", "E", "F", "G", "H", "I", "J", "K", "L", "M",
                  "N", "O", "P", "Q", "R", "S", "T", "U", "V", "W", "X", "Y", "Z">>
LowerLetters == <<"a", "b", "c", "d", "e", "f", "g", "h", "i", "j", "k", "l", "m",
                  "n", "o", "p", "q", "r", "s", "t", "u", "v", "w", "x", "y", "z">>

\* The letters of U+00C0..U+00FE that have an uppercase and a lowercase
\* form.  The str tables of this module cover the characters U+0001..U+00FF.
Latin1Upper == <<"À", "Á", "Â", "Ã", "Ä", "Å", "Æ", "Ç", "È", "É", "Ê", "Ë", "Ì",
               "Í", "Î", "Ï", "Ð", "Ñ", "Ò", "Ó", "Ô", "Õ", "Ö", "Ø", "Ù", "Ú",
               "Û", "Ü", "Ý", "Þ">>
Latin1Lower == <<"à", "á", "â", "ã", "ä", "å", "æ", "ç", "è", "é", "ê", "ë", "ì",
               "í", "î", "ï", "ð", "ñ", "ò", "ó", "ô", "õ", "ö", "ø", "ù", "ú",
               "û", "ü", "ý", "þ">>

\* The characters str.strip() removes: tab, line feed, vertical tab, form
\* feed, carriage return, U+001C..U+001F, space, U+0085 and U+00A0.
Whitespace ==
    {" ", "\t", "\n", "\r", "\f", "", "", "", "", "", "", " "}

\* The lowercase form of every character that has one.
LowerOf ==
    [c \in {UpperLetters[i] : i \in 1..26} \cup {Latin1Upper[i] : i \in 1..30} |->
        IF \E i \in 1..26 : UpperLetters[i] = c
        THEN LowerLetters[CHOOSE i \in 1..26 : UpperLetters[i] = c]
        ELSE Latin1Lower[CHOOSE i \in 1..30 : Latin1Upper[i] = c]]

\* str.lower() on one character.
lower_char(c) == IF c \in DOMAIN LowerOf THEN LowerOf[c] ELSE c

\* s.lower()
lower(s) == [i \in 1..Len(s) |-> lower_char(s[i])]

\* s.replace(old, new) for one-character old and new.
replace(s, old, new) == [i \in 1..Len(s) |-> IF s[i] = old THEN new ELSE s[i]]

\* s.rstrip(chars): drop the longest suffix made of characters of chars.
rstrip(s, chars) ==
    LET n == CHOOSE k \in 0..Len(s) :
                 /\ k = 0 \/ s[k] \notin chars
                 /\ \A j \in (k + 1)..Len(s) : s[j] \in chars
    IN IF Len(s) > 0 /\ s[Len(s)] \notin chars THEN s ELSE SubSeq(s, 1, n)

\* s.lstrip(chars)
lstrip(s, chars) ==
    LET n == CHOOSE k \in 1..(Len(s) + 1) :
                 /\ k = Len(s) + 1 \/ s[k] \notin chars
                 /\ \A j \in 1..(k - 1) : s[j] \in chars
    IN SubSeq(s, n, Len(s))

\* s.strip()
strip(s) == rstrip(lstrip(s, Whitespace), Whitespace)

\* sub in s   (substring test; the empty string is in every string)
contains(sub, s) ==
    \E i \in 0..(Len(s) - Len(sub)) : SubSeq(s, i + 1, i + Len(sub)) = sub

\* s.split(sep) for a one-character sep: the pieces between separators,
\* empty pieces included.
RECURSIVE split(_, _)
split(s, sep) ==
    IF \A i \in 1..Len(s) : s[i] # sep
    THEN <<s>>
    ELSE LET p == CHOOSE i \in 1..Len(s) :
                      s[i] = sep /\ \A j \in 1..(i - 1) : s[j] # sep
         IN <<SubSeq(s, 1, p - 1)>> \o split(SubSeq(s, p + 1, Len(s)), sep)

(***************************************************************************)
(* Python values of dynamic type.                                          *)
(***************************************************************************)
None == [t |-> "NoneType"]
PyStr(s) == [t |-> "str", v |-> s]
PyInt(n) == [t |-> "int", v |-> n]
PyBool(b) == [t |-> "bool", v |-> b]
PyList(l) == [t |-> "list", v |-> l]
PyDict(d) == [t |-> "dict", v |-> d]
EmptyDict == PyDict([k \in {} |-> None])

\* bool(x): the truth value Python's `if x:` tests.
truthy(x) ==
    CASE x.t = "NoneType" -> FALSE
      [] x.t = "bool" -> x.v
      [] x.t = "int" -> x.v # 0
      [] x.t = "str" -> Len(x.v) > 0
      [] x.t = "list" -> Len(x.v) > 0
      [] x.t = "dict" -> DOMAIN x.v # {}

\* mapping.get(key, default)
get(mapping, key, default) ==
    IF key \in DOMAIN mapping THEN mapping[key] ELSE default

\* hasattr(x, "get"): only a dict has a .get method.
has_get(x) == x.t = "dict"

\* hasattr(x, "lower"): only a str has a .lower method.
has_lower(x) == x.t = "str"

(***************************************************************************)
(* The guard's pure functions.                                             *)
(***************************************************************************)
\* _normalize(path): path.replace("\\", "/").lower().rstrip("/")
_normalize(path) == rstrip(lower(replace(path, "\\", "/")), {"/"})

\* re.match(r"^([a-z]):/(.*)$", win_path).  `.` matches no newline and `$`
\* matches at the end or just before one final newline, so group(2) ends at
\* msys2_rest_end.
msys2_rest_end(win_path) ==
    IF Len(win_path) >= 4 /\ win_path[Len(win_path)] = "\n"
    THEN Len(win_path) - 1
    ELSE Len(win_path)

msys2_match(win_path) ==
    /\ Len(win_path) >= 3
    /\ \E i \in 1..26 : LowerLetters[i] = win_path[1]
    /\ win_path[2] = ":"
    /\ win_path[3] = "/"
    /\ \A i \in 4..msys2_rest_end(win_path) : win_path[i] # "\n"

\* _msys2_form(win_path): c:/users/... to /c/users/..., or None.
_msys2_form(win_path) ==
    IF msys2_match(win_path)
    THEN PyStr(<<"/", win_path[1], "/">>
               \o SubSeq(win_path, 4, msys2_rest_end(win_path)))
    ELSE None

\* Mutant: the POSIX-alias form is looked for in the forward-slash copy of
\* the text instead of the lowercased text.
RECURSIVE _contains_any_forbidden_alias_in_fwd(_, _)
_contains_any_forbidden_alias_in_fwd(text, forbidden_list) ==
    LET lowered == lower(text)
        fwd == replace(lowered, "\\", "/")
    IN IF Len(forbidden_list) = 0 THEN None
       ELSE LET norm == forbidden_list[1][1]
                msys == forbidden_list[1][2]
            IN IF contains(norm, fwd) THEN PyStr(norm)
               ELSE IF contains(replace(norm, "/", "\\"), lowered) THEN PyStr(norm)
               ELSE IF truthy(msys) /\ contains(msys.v, fwd) THEN PyStr(norm)
               ELSE _contains_any_forbidden_alias_in_fwd(text, Tail(forbidden_list))

\* Mutant: the loop keeps going after a match, so the last matching entry
\* is the one returned.
RECURSIVE _contains_any_forbidden_last_match(_, _)
_contains_any_forbidden_last_match(text, forbidden_list) ==
    LET lowered == lower(text)
        fwd == replace(lowered, "\\", "/")
    IN IF Len(forbidden_list) = 0 THEN None
       ELSE LET norm == forbidden_list[1][1]
                msys == forbidden_list[1][2]
                later == _contains_any_forbidden_last_match(text, Tail(forbidden_list))
                here == \/ contains(norm, fwd)
                        \/ contains(replace(norm, "/", "\\"), lowered)
                        \/ truthy(msys) /\ contains(msys.v, lowered)
            IN IF later # None THEN later
               ELSE IF here THEN PyStr(norm)
               ELSE None

\* _contains_any_forbidden(text, forbidden_list): the norm of the first
\* entry one of whose three forms is in the text, or None.
RECURSIVE _contains_any_forbidden(_, _)
_contains_any_forbidden(text, forbidden_list) ==
    LET lowered == lower(text)
        fwd == replace(lowered, "\\", "/")
    IN IF Len(forbidden_list) = 0 THEN None
       ELSE LET norm == forbidden_list[1][1]
                msys == forbidden_list[1][2]
            IN IF contains(norm, fwd) THEN PyStr(norm)
               ELSE IF contains(replace(norm, "/", "\\"), lowered) THEN PyStr(norm)
               ELSE IF truthy(msys) /\ contains(msys.v, lowered) THEN PyStr(norm)
               ELSE _contains_any_forbidden(text, Tail(forbidden_list))

VARIABLES
    env,            \* os.environ of the guard process
    pc,             \* position in main: "start", "load", "decide", "exited"
    raw_dirs,       \* main's raw_dirs
    forbidden_list, \* main's forbidden_list: <<norm, msys>> pairs
    stdin_read,     \* <<>> until standard input is read, then <<payload>>
    matched,        \* main's matched
    raised,         \* <<>>, or <<name>> of the uncaught exception
    stdout,         \* the records json.dump wrote to standard output
    exit_status,    \* <<>> while running, <<status>> once the process ended
    parent_env,     \* os.environ of the launcher process
    accounts,       \* the launcher's cfg["accounts"]
    config_file,    \* <<>> until save_config writes, then <<accounts written>>
    stderr,         \* the messages of the last configuration operation
    launched,       \* 0, or the index of the account launch was called for
    forbidden       \* launch's forbidden

\* The launcher's variables.
lvars == <<parent_env, accounts, config_file, stderr, launched, forbidden>>

vars == <<env, pc, raw_dirs, forbidden_list, stdin_read, matched, raised,
          stdout, exit_status, lvars>>

\* Mutant: the singular value is used without the test that it is set.
_get_forbidden_dirs_unchecked_single ==
    LET dirs_str == get(env, "CLAUDE_ACCOUNT_FORBIDDEN_DIRS", <<>>)
        single == get(env, "CLAUDE_ACCOUNT_FORBIDDEN_DIR", <<>>)
        pieces == split(dirs_str, ",")
        stripped == [i \in 1..Len(pieces) |-> strip(pieces[i])]
    IN IF Len(dirs_str) > 0
       THEN SelectSeq(stripped, LAMBDA d : Len(d) > 0)
       ELSE <<strip(single)>>

\* Mutant: the singular value is also the fallback when the plural value
\* is non-empty but holds no directory.
_get_forbidden_dirs_fallback_on_no_entry ==
    LET dirs_str == get(env, "CLAUDE_ACCOUNT_FORBIDDEN_DIRS", <<>>)
        single == get(env, "CLAUDE_ACCOUNT_FORBIDDEN_DIR", <<>>)
        pieces == split(dirs_str, ",")
        stripped == [i \in 1..Len(pieces) |-> strip(pieces[i])]
        entries == SelectSeq(stripped, LAMBDA d : Len(d) > 0)
    IN IF Len(dirs_str) > 0 /\ Len(entries) > 0
       THEN entries
       ELSE IF Len(single) > 0 THEN <<strip(single)>>
       ELSE <<>>

\* _get_forbidden_dirs(): the raw forbidden directories of os.environ.
_get_forbidden_dirs ==
    LET dirs_str == get(env, "CLAUDE_ACCOUNT_FORBIDDEN_DIRS", <<>>)
        single == get(env, "CLAUDE_ACCOUNT_FORBIDDEN_DIR", <<>>)
        pieces == split(dirs_str, ",")
        stripped == [i \in 1..Len(pieces) |-> strip(pieces[i])]
    IN IF Len(dirs_str) > 0
       THEN SelectSeq(stripped, LAMBDA d : Len(d) > 0)
       ELSE IF Len(single) > 0 THEN <<strip(single)>>
       ELSE <<>>

\* main, lines 69-73: the (norm, msys) pair of every raw directory.
precompute(dirs) ==
    [i \in 1..Len(dirs) |->
        <<_normalize(dirs[i]), _msys2_form(_normalize(dirs[i]))>>]

\* The tool names main recognizes.
Bash == <<"B", "a", "s", "h">>
Read == <<"R", "e", "a", "d">>
Write == <<"W", "r", "i", "t", "e">>
Edit == <<"E", "d", "i", "t">>
Glob == <<"G", "l", "o", "b">>
Grep == <<"G", "r", "e", "p">>

\* "" when no branch of the if/elif chain is taken.
inspected_field(tool_name) ==
    IF tool_name = PyStr(Bash) THEN "command"
    ELSE IF tool_name \in {PyStr(Read), PyStr(Write), PyStr(Edit)} THEN "file_path"
    ELSE IF tool_name \in {PyStr(Glob), PyStr(Grep)} THEN "path"
    ELSE ""

\* main, lines 80-98, on the decoded input_data: the exception raised, if
\* any, and the value of matched.
evaluate(input_data, flist) ==
    IF ~has_get(input_data)
    THEN [raised |-> <<"AttributeError">>, matched |-> None]
    ELSE LET tool_name == get(input_data.v, "tool_name", PyStr(<<>>))
             tool_input == get(input_data.v, "tool_input", EmptyDict)
             field == inspected_field(tool_name)
         IN IF field = "" THEN [raised |-> <<>>, matched |-> None]
            ELSE IF ~has_get(tool_input)
            THEN [raised |-> <<"AttributeError">>, matched |-> None]
            ELSE LET value == get(tool_input.v, field, PyStr(<<>>))
                 IN IF ~truthy(value) THEN [raised |-> <<>>, matched |-> None]
                    ELSE IF ~has_lower(value)
                    THEN [raised |-> <<"AttributeError">>, matched |-> None]
                    ELSE [raised |-> <<>>,
                          matched |-> _contains_any_forbidden(value.v, flist)]

DefaultAccount == <<"u", "n", "k", "n", "o", "w", "n">>
DefaultConfigDir == <<"~", "/", ".", "c", "l", "a", "u", "d", "e">>

\* Mutant: backslashes are used when any configured directory has one.
display_dir_any_backslash(m, dirs) ==
    IF \E j \in 1..Len(dirs) : "\\" \in {dirs[j][i] : i \in 1..Len(dirs[j])}
    THEN replace(m, "/", "\\")
    ELSE m

\* main, line 104: the matched directory as shown in the reason.
display_dir(m, dirs) ==
    IF "\\" \in {dirs[1][i] : i \in 1..Len(dirs[1])}
    THEN replace(m, "/", "\\")
    ELSE m

\* main, lines 101-117: the deny record.  The reason is the sequence of the
\* f-string's literal and interpolated segments.
deny_record(m, dirs) ==
    [hookSpecificOutput |->
        [hookEventName |-> "PreToolUse",
         permissionDecision |-> "deny",
         reason |-> <<"Cross-account access denied. You are running as the '",
                      get(env, "CLAUDE_ACCOUNT", DefaultAccount),
                      "' account (config: ",
                      get(env, "CLAUDE_CONFIG_DIR", DefaultConfigDir),
                      "). Access to ",
                      display_dir(m, dirs),
                      " is forbidden. That path belongs to a different account.">>]]

(***************************************************************************)
(* The inputs: environments and standard-input payloads.                   *)
(***************************************************************************)
\* All strings over chars of length at most n.
Strs(chars, n) == UNION {[1..k -> chars] : k \in 0..n}

\* A mapping with the keys whose optional value (<<>> or <<value>>) is given.
opt_map(opts) == [k \in {k \in DOMAIN opts : opts[k] # <<>>} |-> opts[k][1]]

\* <<>> (absent) and <<x>> for every x of S.
Optional(S) == {<<>>} \cup {<<x>> : x \in S}

EnvChars == {"a", "/", "\\", ",", " "}
TextChars == {"a", "A", "/", "\\"}

\* Longer values: the documented example scenarios, shortened.
SeedDirs ==
    {<<"/", "a", ",", "/", "b">>,
     <<"/", ",", "/", "b">>,
     <<"C", ":", "\\", "W">>,
     <<"C", ":", "\\", "W", ",", "/", "b">>,
     <<"/", "b", ",", "C", ":", "\\", "W", "\\">>,
     <<"c", ":", "/">>,
     <<"/", "b", ",", "/", "a", ",", "a">>,
     <<" ", "/", "b", " ", ",", ",", "/", "a", "/", "b">>}

SeedTexts ==
    {<<"/", "b", "/", "s">>,
     <<"/", "B", "\\", "s">>,
     <<"C", ":", "\\", "W", "\\", "x">>,
     <<"c", ":", "/", "w">>,
     <<"/", "c", "/", "W", "/", "x">>,
     <<"\\", "c", "\\", "w">>,
     <<"l", "s", " ", "/", "a", "\\", "b">>,
     <<"/", "c", "/">>,
     <<"/", "w">>}

PluralValues == Strs(EnvChars, MaxEnvLen) \cup SeedDirs
SingularValues ==
    Strs(EnvChars, MaxEnvLen - 1)
    \cup {<<"/", "b">>, <<" ", "/", "b", " ">>, <<"/", "a", ",", "/", "b">>,
          <<"C", ":", "\\", "W">>}
Texts == Strs(TextChars, MaxTextLen) \cup SeedTexts

\* The two forbidden-directory variables: every plural value with the
\* singular one unset or set, and every singular value with the plural one
\* unset or empty.
DirSettings ==
    (Optional(PluralValues) \X Optional({<<"/", "b">>}))
    \cup (Optional({<<>>}) \X Optional(SingularValues))

Environments ==
    {opt_map([CLAUDE_ACCOUNT_FORBIDDEN_DIRS |-> ds[1],
              CLAUDE_ACCOUNT_FORBIDDEN_DIR |-> ds[2],
              CLAUDE_ACCOUNT |-> a,
              CLAUDE_CONFIG_DIR |-> c]) :
        ds \in DirSettings,
        a \in Optional({<<"w">>}),
        c \in Optional({<<"/", "w">>})}

\* Standard input that json.load cannot decode.
NotJSON == [t |-> "undecodable"]

Fields == {"command", "file_path", "path"}
Decoy == PyStr(<<"/", "a">>)
NonStrValues == {None, PyInt(0), PyInt(5), PyList(<<Decoy>>)}
FieldValues == {PyStr(x) : x \in Texts} \cup NonStrValues

\* tool_input values for a tool whose inspected field is f ("" for none):
\* the inspected field alone with every value, another field alone, an
\* absent or falsy inspected field next to other fields, no field, and
\* values that are not mappings.
ToolInputs(f) ==
    {PyDict([k \in {f} \cap Fields |-> x]) : x \in FieldValues}
    \cup {PyDict([k \in {g} |-> Decoy]) : g \in Fields \ {f}}
    \cup {PyDict([k \in Fields |-> IF k = f THEN x ELSE Decoy]) :
             x \in {PyStr(<<>>), PyInt(0), None}}
    \cup {Decoy, PyInt(5), None, PyList(<<>>)}

RecognizedNames == {Bash, Read, Write, Edit, Glob, Grep}
OtherNames ==
    {PyStr(<<"T", "a", "s", "k">>), PyStr(<<"b", "a", "s", "h">>), PyInt(5)}

Requests ==
    UNION {{PyDict(opt_map([tool_name |-> <<PyStr(n)>>, tool_input |-> ti])) :
               ti \in Optional(ToolInputs(inspected_field(PyStr(n))))} :
           n \in RecognizedNames}
    \cup {PyDict(opt_map([tool_name |-> n, tool_input |-> ti])) :
             n \in Optional(OtherNames),
             ti \in Optional(ToolInputs(""))}

\* A JSON array nested deeper than the interpreter's recursion limit.
TooDeep == [t |-> "deep"]

\* Requests with such an array in a field that is not inspected.
DeepRequests ==
    {PyDict([tool_name |-> n, tool_input |-> PyDict([x |-> TooDeep])]) :
        n \in {PyStr(<<"T", "a", "s", "k">>), PyStr(Bash)}}

\* json.load raises RecursionError on a value that holds such an array.
RECURSIVE too_deep(_)
too_deep(x) ==
    CASE x.t = "deep" -> TRUE
      [] x.t = "dict" -> \E k \in DOMAIN x.v : too_deep(x.v[k])
      [] x.t = "list" -> \E i \in 1..Len(x.v) : too_deep(x.v[i])
      [] OTHER -> FALSE

Payloads ==
    {NotJSON, PyList(<<>>), Decoy, PyInt(5), None, TooDeep}
    \cup Requests \cup DeepRequests

(***************************************************************************)
(* The guard process: main.                                                *)
(***************************************************************************)
\* The guard was started by something other than the launcher.
NoLauncher ==
    /\ parent_env = <<>>
    /\ accounts = <<>>
    /\ config_file = <<>>
    /\ stderr = <<>>
    /\ launched = 0
    /\ forbidden = <<>>

Init ==
    /\ env \in Environments
    /\ pc = "start"
    /\ raw_dirs = <<>>
    /\ forbidden_list = <<>>
    /\ stdin_read = <<>>
    /\ matched = None
    /\ raised = <<>>
    /\ stdout = <<>>
    /\ exit_status = <<>>
    /\ NoLauncher

\* main, lines 64-73: read the configuration; leave at once when there is
\* none.
ReadConfig ==
    /\ pc = "start"
    /\ raw_dirs' = _get_forbidden_dirs
    /\ IF Len(raw_dirs') = 0
       THEN /\ pc' = "exited"
            /\ exit_status' = <<0>>
            /\ forbidden_list' = forbidden_list
       ELSE /\ pc' = "load"
            /\ exit_status' = exit_status
            /\ forbidden_list' = precompute(raw_dirs')
    /\ UNCHANGED <<env, stdin_read, matched, raised, stdout, lvars>>

\* main, lines 75-78: json.load(sys.stdin); undecodable input ends the
\* process with status 0.  Only JSONDecodeError and ValueError are caught:
\* the RecursionError of a too deeply nested value ends the process with
\* status 1.
LoadInput ==
    /\ pc = "load"
    /\ \E payload \in Payloads :
        /\ stdin_read' = <<payload>>
        /\ IF payload = NotJSON
           THEN pc' = "exited" /\ exit_status' = <<0>> /\ raised' = raised
           ELSE IF too_deep(payload)
           THEN /\ pc' = "exited"
                /\ exit_status' = <<1>>
                /\ raised' = <<"RecursionError">>
           ELSE pc' = "decide" /\ exit_status' = exit_status /\ raised' = raised
    /\ UNCHANGED <<env, raw_dirs, forbidden_list, matched, stdout, lvars>>

\* Mutant: a request that is not denied gets an explicit allow record.
Decide_with_allow_record ==
    /\ pc = "decide"
    /\ LET r == evaluate(stdin_read[1], forbidden_list)
       IN /\ raised' = r.raised
          /\ matched' = r.matched
          /\ IF r.raised # <<>>
             THEN stdout' = stdout /\ exit_status' = <<1>>
             ELSE /\ exit_status' = <<0>>
                  /\ IF truthy(r.matched)
                     THEN stdout' = Append(stdout, deny_record(r.matched.v, raw_dirs))
                     ELSE stdout' = Append(stdout,
                              [hookSpecificOutput |->
                                  [hookEventName |-> "PreToolUse",
                                   permissionDecision |-> "allow"]])
    /\ pc' = "exited"
    /\ UNCHANGED <<env, raw_dirs, forbidden_list, stdin_read, lvars>>

\* main, lines 80-121: extract the target text, match it, write the deny
\* record on a match.  An uncaught exception ends the process with status 1
\* and nothing on standard output.
Decide ==
    /\ pc = "decide"
    /\ LET r == evaluate(stdin_read[1], forbidden_list)
       IN /\ raised' = r.raised
          /\ matched' = r.matched
          /\ IF r.raised # <<>>
             THEN stdout' = stdout /\ exit_status' = <<1>>
             ELSE /\ exit_status' = <<0>>
                  /\ IF truthy(r.matched)
                     THEN stdout' = Append(stdout, deny_record(r.matched.v, raw_dirs))
                     ELSE stdout' = stdout
    /\ pc' = "exited"
    /\ UNCHANGED <<env, raw_dirs, forbidden_list, stdin_read, lvars>>

Next == ReadConfig \/ LoadInput \/ Decide

Spec == Init /\ [][Next]_vars

(***************************************************************************)
(* Vocabulary of the properties.                                           *)
(***************************************************************************)
Exited == pc = "exited"

\* The decision: a deny record on standard output is Deny, silence is Allow.
Denied == Len(stdout) > 0
Allowed == stdout = <<>>

\* The payload read from standard input (once it is read).
Payload == stdin_read[1]

\* The field the interface inspects for each recognized tool kind.
FieldOfKind ==
    [n \in RecognizedNames |->
        IF n = Bash THEN "command"
        ELSE IF n \in {Read, Write, Edit} THEN "file_path"
        ELSE "path"]

HasRecognizedName ==
    /\ stdin_read # <<>>
    /\ Payload.t = "dict"
    /\ "tool_name" \in DOMAIN Payload.v
    /\ Payload.v.tool_name.t = "str"
    /\ Payload.v.tool_name.v \in RecognizedNames

HasMappingInput ==
    /\ "tool_input" \in DOMAIN Payload.v
    /\ Payload.v.tool_input.t = "dict"

\* A well-formed request of a recognized tool kind that carries a target
\* text in the inspected field.
IsRequest ==
    /\ HasRecognizedName
    /\ HasMappingInput
    /\ FieldOfKind[Payload.v.tool_name.v] \in DOMAIN Payload.v.tool_input.v
    /\ Payload.v.tool_input.v[FieldOfKind[Payload.v.tool_name.v]].t = "str"

TargetText == Payload.v.tool_input.v[FieldOfKind[Payload.v.tool_name.v]].v

\* A request whose target text is not empty.
HasTarget == IsRequest /\ Len(TargetText) > 0

Configured == Len(raw_dirs) > 0

\* The entries of the configuration whose normalized form is in the
\* lowercased, forward-slash-normalized text.
NormalizedHits(text) ==
    {i \in 1..Len(raw_dirs) :
        contains(_normalize(raw_dirs[i]), replace(lower(text), "\\", "/"))}

(***************************************************************************)
(* C1.  With a non-empty configuration, a request of a recognized tool     *)
(* kind whose lowercased, forward-slash-normalized target text contains    *)
(* the normalized form of a configured directory is denied.                *)
(* Violated: a directory that normalizes to the empty string ("/", "\")    *)
(* is contained in every text, is returned as the match, and `if matched:` *)
(* takes the empty string for no match.                                    *)
(***************************************************************************)
C1_NormalizedMatchDenied ==
    (Exited /\ Configured /\ HasTarget /\ NormalizedHits(TargetText) # {})
        => Denied

(***************************************************************************)
(* C2.  As stated: a target text that contains none of the three forms of  *)
(* any configured directory is allowed.  Read on the target text as it is  *)
(* written, this fails: the forms are lowercase and the code matches       *)
(* them against the lowercased text, and the normalized form against its   *)
(* forward-slash copy.                                                    *)
(***************************************************************************)
FormsOf(d) ==
    {_normalize(d), replace(_normalize(d), "/", "\\")}
    \cup (IF truthy(_msys2_form(_normalize(d)))
          THEN {_msys2_form(_normalize(d)).v}
          ELSE {})

C2_NoFormInTextAllowed ==
    (Exited /\ HasTarget
       /\ \A i \in 1..Len(raw_dirs) :
            \A f \in FormsOf(raw_dirs[i]) : ~contains(f, TargetText))
        => Allowed

\* The three tests of the matching algorithm on a text, for directory d.
FormMatches(d, text) ==
    \/ contains(_normalize(d), replace(lower(text), "\\", "/"))
    \/ contains(replace(_normalize(d), "/", "\\"), lower(text))
    \/ /\ truthy(_msys2_form(_normalize(d)))
       /\ contains(_msys2_form(_normalize(d)).v, lower(text))

\* The texts main scans for the payload: the inspected field when it is a
\* string, nothing otherwise.
ScannedTexts == IF IsRequest THEN {TargetText} ELSE {}

(* C2, amended.  Whatever the configuration and the payload: when, for     *)
(* every configured directory, the lowercased and forward-slash-normalized *)
(* target text does not contain the normalized form and the lowercased     *)
(* target text contains neither the backslash-rewritten nor the            *)
(* POSIX-alias form, no deny record is written.                            *)
C2_NoFormMatchAllowed ==
    (Exited
       /\ \A text \in ScannedTexts :
            \A i \in 1..Len(raw_dirs) : ~FormMatches(raw_dirs[i], text))
        => Allowed

\* A request whose text differs from every form only by letter case or by
\* mixed separators, with a directory configured, is let through.
C2_Witness ==
    /\ Exited /\ Configured /\ HasTarget /\ Allowed
    /\ \A i \in 1..Len(raw_dirs) : ~FormMatches(raw_dirs[i], TargetText)
    /\ \E i \in 1..Len(raw_dirs) :
          contains(<<"/">>, _normalize(raw_dirs[i]))
    /\ contains(<<"/">>, replace(TargetText, "\\", "/"))

(***************************************************************************)
(* C3.  With a non-empty configuration, a malformed payload (undecodable   *)
(* text, JSON that is not an object, a tool_input that is not a mapping,   *)
(* an inspected field that is not a string) yields Allow and exit status   *)
(* 0.  Violated: only JSONDecodeError/ValueError is caught; .get on a      *)
(* non-dict and .lower on a non-str raise AttributeError, uncaught.        *)
(***************************************************************************)
Malformed ==
    /\ stdin_read # <<>>
    /\ \/ Payload = NotJSON
       \/ Payload.t # "dict"
       \/ "tool_input" \in DOMAIN Payload.v /\ Payload.v.tool_input.t # "dict"
       \/ /\ HasRecognizedName /\ HasMappingInput
          /\ FieldOfKind[Payload.v.tool_name.v] \in DOMAIN Payload.v.tool_input.v
          /\ Payload.v.tool_input.v[FieldOfKind[Payload.v.tool_name.v]].t # "str"

C3_MalformedInputAllowed ==
    (Exited /\ Configured /\ Malformed)
        => (Allowed /\ exit_status = <<0>> /\ raised = <<>>)

(***************************************************************************)
(* C4.  A target text that spells a configured directory with forward      *)
(* slashes, with backslashes or, for a drive-letter-rooted directory, as   *)
(* the POSIX alias /x/..., in any letter case, is denied.                  *)
(* Violated: by the empty normalized form of C1, and by a drive root       *)
(* ("C:\" normalizes to "c:", which has no alias).                         *)
(***************************************************************************)
IsLetter(c) ==
    \E i \in 1..26 : UpperLetters[i] = c \/ LowerLetters[i] = c

DriveRooted(d) ==
    Len(d) >= 3 /\ IsLetter(d[1]) /\ d[2] = ":" /\ d[3] \in {"/", "\\"}

AliasSpelling(d) ==
    <<"/", lower_char(d[1]), "/">>
    \o lower(replace(SubSeq(d, 4, Len(d)), "\\", "/"))

Spells(text, d) ==
    \/ contains(lower(replace(d, "\\", "/")), lower(text))
    \/ contains(lower(replace(d, "/", "\\")), lower(text))
    \/ DriveRooted(d) /\ contains(AliasSpelling(d), lower(text))

C4_EverySpellingDenied ==
    (Exited /\ HasTarget
       /\ \E i \in 1..Len(raw_dirs) : Spells(TargetText, raw_dirs[i]))
        => Denied

(***************************************************************************)
(* C5.  With both forbidden-directory variables unset or empty the guard   *)
(* ends with status 0 and no output, and never reads standard input.       *)
(***************************************************************************)
Unconfigured ==
    /\ get(env, "CLAUDE_ACCOUNT_FORBIDDEN_DIRS", <<>>) = <<>>
    /\ get(env, "CLAUDE_ACCOUNT_FORBIDDEN_DIR", <<>>) = <<>>

C5_DisabledGuardAllows ==
    Unconfigured =>
        /\ pc \in {"start", "exited"}
        /\ stdin_read = <<>>
        /\ stdout = <<>>
        /\ raised = <<>>
        /\ Exited => exit_status = <<0>>

\* The guard has ended with a variable set to the empty string.
C5_Witness ==
    /\ Unconfigured /\ Exited /\ exit_status = <<0>>
    /\ "CLAUDE_ACCOUNT_FORBIDDEN_DIR" \in DOMAIN env

(***************************************************************************)
(* C6.  As stated: with the plural variable unset or empty and the         *)
(* singular one set, the singular value is the sole forbidden directory;   *)
(* with a non-empty plural value the singular one is not consulted.        *)
(* Fails on the first half: the singular value is stripped of surrounding  *)
(* whitespace before it is used.                                           *)
(***************************************************************************)
PluralValue == get(env, "CLAUDE_ACCOUNT_FORBIDDEN_DIRS", <<>>)
SingularValue == get(env, "CLAUDE_ACCOUNT_FORBIDDEN_DIR", <<>>)
ConfigRead == pc # "start"

\* Every directory in use is written in the plural value.
OnlyFromPlural ==
    \A i \in 1..Len(raw_dirs) : contains(raw_dirs[i], PluralValue)

C6_SingularValueIsSoleDirectory ==
    ConfigRead =>
        /\ (PluralValue = <<>> /\ SingularValue # <<>>)
              => raw_dirs = <<SingularValue>>
        /\ PluralValue # <<>> => OnlyFromPlural

(* C6, amended.  With the plural variable unset or empty and the singular  *)
(* one set to a non-empty value, the singular value with its surrounding   *)
(* whitespace stripped is the sole forbidden directory; whenever the       *)
(* plural value is non-empty the singular one is not consulted: every      *)
(* directory in use is written in the plural value.                        *)
C6_StrippedSingularIsSoleDirectory ==
    ConfigRead =>
        /\ (PluralValue = <<>> /\ SingularValue # <<>>)
              => raw_dirs = <<strip(SingularValue)>>
        /\ PluralValue # <<>> => OnlyFromPlural

\* The fallback was taken with the plural variable set to the empty string
\* and a singular value with whitespace around a directory.
C6_Witness ==
    /\ ConfigRead
    /\ "CLAUDE_ACCOUNT_FORBIDDEN_DIRS" \in DOMAIN env
    /\ PluralValue = <<>>
    /\ SingularValue # strip(SingularValue)
    /\ raw_dirs = <<strip(SingularValue)>>
    /\ Len(raw_dirs[1]) > 0

(***************************************************************************)
(* C7.  The directory of a deny record is the first entry, in              *)
(* configuration order, one of whose three forms matches the target text:  *)
(* no earlier entry matches, and a later matching entry is not reported    *)
(* in its place.                                                           *)
(***************************************************************************)
MatchingEntries(text) ==
    {i \in 1..Len(raw_dirs) : FormMatches(raw_dirs[i], text)}

FirstOf(S) == CHOOSE i \in S : \A j \in S : i <= j

\* The directory named in the deny record, in forward-slash form.
ReportedDir == replace(stdout[1].hookSpecificOutput.reason[6], "\\", "/")

C7_FirstMatchReported ==
    Denied =>
        /\ IsRequest
        /\ MatchingEntries(TargetText) # {}
        /\ ReportedDir = _normalize(raw_dirs[FirstOf(MatchingEntries(TargetText))])

\* Denied with a first entry that does not match and two later entries,
\* of different normalized forms, that both match.
C7_Witness ==
    /\ Denied
    /\ IsRequest
    /\ FirstOf(MatchingEntries(TargetText)) > 1
    /\ \E j \in MatchingEntries(TargetText) :
          _normalize(raw_dirs[j]) # ReportedDir

(***************************************************************************)
(* C8.  A request is allowed whenever its tool name is not one of the six  *)
(* recognized ones, or the one field inspected for its kind is absent or   *)
(* the empty string, whatever the other fields of tool_input hold.         *)
(***************************************************************************)
IsObject == stdin_read # <<>> /\ Payload.t = "dict"

InspectedAbsentOrEmpty ==
    /\ HasRecognizedName
    /\ \/ "tool_input" \notin DOMAIN Payload.v
       \/ /\ Payload.v.tool_input.t = "dict"
          /\ \/ FieldOfKind[Payload.v.tool_name.v]
                    \notin DOMAIN Payload.v.tool_input.v
             \/ Payload.v.tool_input.v[FieldOfKind[Payload.v.tool_name.v]]
                    = PyStr(<<>>)

C8_OnlyInspectedFieldCounts ==
    (Exited /\ IsObject /\ (~HasRecognizedName \/ InspectedAbsentOrEmpty))
        => (Allowed /\ exit_status = <<0>> /\ raised = <<>>)

(***************************************************************************)
(* C9.  Standard output carries a payload exactly when the decision is     *)
(* Deny: then one record with hookEventName PreToolUse, permissionDecision *)
(* deny and a reason; with no match, a disabled guard or malformed input   *)
(* nothing is written.                                                     *)
(***************************************************************************)
C9_OutputIffDeny ==
    /\ Len(stdout) <= 1
    /\ Denied =>
          /\ Exited /\ exit_status = <<0>> /\ truthy(matched)
          /\ DOMAIN stdout[1] = {"hookSpecificOutput"}
          /\ DOMAIN stdout[1].hookSpecificOutput
                = {"hookEventName", "permissionDecision", "reason"}
          /\ stdout[1].hookSpecificOutput.hookEventName = "PreToolUse"
          /\ stdout[1].hookSpecificOutput.permissionDecision = "deny"
          /\ Len(stdout[1].hookSpecificOutput.reason) > 0
    /\ (Exited /\ truthy(matched)) => Denied
    /\ (Exited /\ (~Configured \/ matched = None \/ raised # <<>>)) => Allowed
    /\ (stdin_read # <<>> /\ Payload = NotJSON) => Allowed

\* A request was denied and its record written.
C9_Witness ==
    /\ Exited /\ Denied /\ HasTarget
    /\ MatchingEntries(TargetText) # {}

(***************************************************************************)
(* C10.  In a deny record the matched directory is written with            *)
(* backslashes exactly when the first configured directory contains a      *)
(* backslash, and in its normalized forward-slash form otherwise; the      *)
(* account is 'unknown' and the configuration directory '~/.claude' when   *)
(* their variables are unset.                                              *)
(***************************************************************************)
HasBackslash(s) == \E i \in 1..Len(s) : s[i] = "\\"

Reason == stdout[1].hookSpecificOutput.reason

MatchedNorm == _normalize(raw_dirs[FirstOf(MatchingEntries(TargetText))])

C10_DisplayFollowsFirstDirectory ==
    Denied =>
        /\ HasBackslash(raw_dirs[1])
              => Reason[6] = replace(MatchedNorm, "/", "\\")
        /\ ~HasBackslash(raw_dirs[1]) => Reason[6] = MatchedNorm
        /\ Reason[2] = IF "CLAUDE_ACCOUNT" \in DOMAIN env
                       THEN env["CLAUDE_ACCOUNT"]
                       ELSE <<"u", "n", "k", "n", "o", "w", "n">>
        /\ Reason[4] = IF "CLAUDE_CONFIG_DIR" \in DOMAIN env
                       THEN env["CLAUDE_CONFIG_DIR"]
                       ELSE <<"~", "/", ".", "c", "l", "a", "u", "d", "e">>

\* Denied for a later entry configured with forward slashes, shown with
\* backslashes because the first entry has one; both defaults in use.
C10_Witness ==
    /\ Denied
    /\ HasBackslash(raw_dirs[1])
    /\ FirstOf(MatchingEntries(TargetText)) > 1
    /\ ~HasBackslash(raw_dirs[FirstOf(MatchingEntries(TargetText))])
    /\ HasBackslash(Reason[6])
    /\ "CLAUDE_ACCOUNT" \notin DOMAIN env
    /\ "CLAUDE_CONFIG_DIR" \notin DOMAIN env

(***************************************************************************)
(* The directory forms main precomputes, over raw values that hold drive   *)
(* letters and line breaks.                                                *)
(***************************************************************************)
RawChars == {"a", "A", ":", "/", "\\", "\n"}

\* The guard started with one forbidden-directories value over RawChars.
InitNormalize ==
    /\ env \in {opt_map([CLAUDE_ACCOUNT_FORBIDDEN_DIRS |-> <<v>>]) :
                    v \in Strs(RawChars, MaxRawLen)}
    /\ pc = "start"
    /\ raw_dirs = <<>>
    /\ forbidden_list = <<>>
    /\ stdin_read = <<>>
    /\ matched = None
    /\ raised = <<>>
    /\ stdout = <<>>
    /\ exit_status = <<>>
    /\ NoLauncher

SpecNormalize == InitNormalize /\ [][ReadConfig]_vars

HasUppercase(s) == \E i \in 1..Len(s) : lower_char(s[i]) # s[i]

\* The text begins with a lowercase drive letter, a colon and a slash.
StartsWithDrive(s) ==
    /\ Len(s) >= 3
    /\ \E i \in 1..26 : LowerLetters[i] = s[1]
    /\ s[2] = ":"
    /\ s[3] = "/"

\* C12: for every raw forbidden directory, the normalized form the guard
\* keeps has no backslash, no uppercase letter and no trailing slash,
\* normalizing it again changes nothing, and the POSIX-alias form exists
\* exactly when the normalized form begins with a drive letter followed by
\* ":/", in which case it is "/", the letter, "/" and the rest.
C12_NormalizedFormsAndAlias ==
    ConfigRead =>
        \A i \in 1..Len(forbidden_list) :
            LET norm == forbidden_list[i][1]
                msys == forbidden_list[i][2]
            IN /\ norm = _normalize(raw_dirs[i])
               /\ ~HasBackslash(norm)
               /\ ~HasUppercase(norm)
               /\ (Len(norm) > 0 => norm[Len(norm)] # "/")
               /\ _normalize(norm) = norm
               /\ (msys # None) <=> StartsWithDrive(norm)
               /\ StartsWithDrive(norm) =>
                     msys = PyStr(<<"/", norm[1], "/">>
                                  \o SubSeq(norm, 4, Len(norm)))

(***************************************************************************)
(* Separator spellings of a target text.                                   *)
(***************************************************************************)
Separators == {"/", "\\"}

\* The texts that differ from text only by writing some separators the
\* other way.
SepVariants(text) ==
    LET at == {i \in 1..Len(text) : text[i] \in Separators}
    IN {[i \in 1..Len(text) |-> IF i \in at THEN f[i] ELSE text[i]] :
            f \in [at -> Separators]}

\* C13: two target texts that differ only in how their path separators are
\* spelled receive the same decision: every separator respelling of the
\* target text of a finished run is denied exactly when the run denied.
C13_SeparatorSpellingIrrelevant ==
    (Exited /\ HasTarget) =>
        \A t \in SepVariants(TargetText) :
            truthy(_contains_any_forbidden(t, forbidden_list)) <=> Denied

(***************************************************************************)
(* The launcher (launcher.py): str and path primitives.                    *)
(***************************************************************************)
\* The titlecase form str.title() gives a character that follows no cased
\* character: the uppercase letter; "Ss" for U+00DF, U+039C for the micro
\* sign and U+0178 for U+00FF.  U+0178 cannot be written in a string of
\* this module and is written as its code point.
title_char(c) ==
    IF \E i \in 1..26 : LowerLetters[i] = c
    THEN <<UpperLetters[CHOOSE i \in 1..26 : LowerLetters[i] = c]>>
    ELSE IF \E i \in 1..30 : Latin1Lower[i] = c
    THEN <<Latin1Upper[CHOOSE i \in 1..30 : Latin1Lower[i] = c]>>
    ELSE IF c = "ß" THEN <<"S", "s">>
    ELSE IF c = "µ" THEN <<"Μ">>
    ELSE IF c = "ÿ" THEN <<"U+0178">>
    ELSE <<c>>

\* The cased characters: the letters with an uppercase or lowercase form
\* and the lowercase characters without an uppercase one.
IsCased(c) ==
    \/ \E i \in 1..26 : UpperLetters[i] = c \/ LowerLetters[i] = c
    \/ \E i \in 1..30 : Latin1Upper[i] = c \/ Latin1Lower[i] = c
    \/ c \in {"ª", "µ", "º", "ß", "ÿ"}

\* str.title(): a character that follows no cased character is titlecased,
\* the others are lowercased.
RECURSIVE title_from(_, _)
title_from(s, i) ==
    IF i > Len(s) THEN <<>>
    ELSE (IF i > 1 /\ IsCased(s[i - 1]) THEN <<lower_char(s[i])>>
          ELSE title_char(s[i]))
         \o title_from(s, i + 1)

title(s) == title_from(s, 1)

\* sep.join(list) for a one-character separator.
RECURSIVE join(_, _)
join(sep, list) ==
    IF Len(list) = 0 THEN <<>>
    ELSE IF Len(list) = 1 THEN list[1]
    ELSE list[1] \o <<sep>> \o join(sep, Tail(list))

Digits == <<"0", "1", "2", "3", "4", "5", "6", "7", "8", "9">>

\* str.isdigit(): the decimal digits and the superscript digits.
DigitChars ==
    {"0", "1", "2", "3", "4", "5", "6", "7", "8", "9", "¹", "²", "³"}
isdigit(s) ==
    /\ Len(s) > 0
    /\ \A i \in 1..Len(s) : s[i] \in DigitChars

\* The interpreter's limit on the number of characters of a text that
\* int() converts (sys.get_int_max_str_digits() of CPython 3.11).
IntMaxStrDigits == 4300

\* int(s) raises ValueError unless every character is a decimal digit,
\* and also when the text is longer than the interpreter's limit; leading
\* zeros count towards the limit.
int_raises(s) ==
    \/ Len(s) = 0
    \/ Len(s) > IntMaxStrDigits
    \/ \E i \in 1..Len(s) : \A d \in 1..10 : Digits[d] # s[i]

\* The value of a text of at most nine decimal digits.
RECURSIVE int_digits(_)
int_digits(s) ==
    IF Len(s) = 0 THEN 0
    ELSE 10 * int_digits(SubSeq(s, 1, Len(s) - 1))
         + (CHOOSE d \in 1..10 : Digits[d] = s[Len(s)]) - 1

\* Every value of ten or more significant digits stands as this one: the
\* callers only compare the value with the length of the account list.
IntHuge == 1000000000

\* int(s) for a text of decimal digits; leading zeros do not count.
int(s) ==
    IF int_raises(s) THEN 0
    ELSE LET nz == {i \in 1..Len(s) : s[i] # "0"}
         IN IF nz = {} THEN 0
            ELSE LET k == CHOOSE i \in nz : \A j \in nz : i <= j
                     sig == SubSeq(s, k, Len(s))
                 IN IF Len(sig) > 9 THEN IntHuge ELSE int_digits(sig)

\* Path.home() and the working directory of the launcher process.
Home == <<"/", "h">>
Cwd == <<"/", "r">>

\* The components a path keeps when it is resolved: empty and "."
\* components are dropped, ".." drops the component before it.
RECURSIVE resolve_parts(_, _)
resolve_parts(parts, kept) ==
    IF Len(parts) = 0 THEN kept
    ELSE IF parts[1] \in {<<>>, <<".">>} THEN resolve_parts(Tail(parts), kept)
    ELSE IF parts[1] = <<".", ".">>
         THEN resolve_parts(Tail(parts),
                            SubSeq(kept, 1, IF Len(kept) = 0 THEN 0 ELSE Len(kept) - 1))
    ELSE resolve_parts(Tail(parts), Append(kept, parts[1]))

\* str(Path(d).resolve()) on a POSIX file system without symbolic links: a
\* relative path is taken from the working directory, and the result is "/"
\* followed by the kept components joined by "/".
path_resolve(d) ==
    LET absolute == IF Len(d) > 0 /\ d[1] = "/" THEN d ELSE Cwd \o <<"/">> \o d
    IN <<"/">> \o join("/", resolve_parts(split(absolute, "/"), <<>>))

\* The components a path keeps when it is built: empty and "." components
\* are dropped.
RECURSIVE pure_parts(_)
pure_parts(parts) ==
    IF Len(parts) = 0 THEN <<>>
    ELSE IF parts[1] \in {<<>>, <<".">>} THEN pure_parts(Tail(parts))
    ELSE <<parts[1]>> \o pure_parts(Tail(parts))

\* str(Path.home() / name) for a relative name.
home_path(name) == join("/", <<Home>> \o pure_parts(split(name, "/")))

DotClaude == <<".", "c", "l", "a", "u", "d", "e">>

\* resolve_config_dir(acct): the resolved directory, or None.
resolve_config_dir(acct) ==
    IF truthy(acct.config_dir) THEN PyStr(path_resolve(acct.config_dir.v)) ELSE None

\* Mutant: the launched account is not skipped.
RECURSIVE forbidden_from_with_current(_, _, _)
forbidden_from_with_current(accts, i, current_index) ==
    IF i > Len(accts) THEN <<>>
    ELSE LET d == resolve_config_dir(accts[i])
         IN <<IF truthy(d) THEN d.v ELSE home_path(DotClaude)>>
            \o forbidden_from_with_current(accts, i + 1, current_index)

\* compute_forbidden_dirs(accounts, current_index): the directories of all
\* other accounts, ~/.claude for an account without one.  Positions count
\* from 1 here and from 0 in the source.
RECURSIVE forbidden_from(_, _, _)
forbidden_from(accts, i, current_index) ==
    IF i > Len(accts) THEN <<>>
    ELSE IF i = current_index THEN forbidden_from(accts, i + 1, current_index)
    ELSE LET d == resolve_config_dir(accts[i])
         IN <<IF truthy(d) THEN d.v ELSE home_path(DotClaude)>>
            \o forbidden_from(accts, i + 1, current_index)

compute_forbidden_dirs(accts, current_index) ==
    forbidden_from(accts, 1, current_index)

(***************************************************************************)
(* The launcher: accounts, configuration operations, launch.               *)
(***************************************************************************)
DEFAULT_COLORS == <<"#cc3333", "#2ecc71", "#3498db", "#e67e22", "#9b59b6",
                    "#1abc9c", "#e74c3c", "#f39c12", "#2980b9">>

\* default_config()["accounts"][0].
DefaultAcct ==
    [id |-> <<"d", "e", "f", "a", "u", "l", "t">>,
     label |-> <<"D", "e", "f", "a", "u", "l", "t">>,
     color |-> "#ffffff",
     config_dir |-> None,
     hotkey |-> <<"d">>]

\* An account as config_add_account stored it earlier in the file.
WorkAcct ==
    [id |-> <<"w">>,
     label |-> <<"W">>,
     color |-> DEFAULT_COLORS[2],
     config_dir |-> PyStr(<<"/", "w">>),
     hotkey |-> <<"w">>]

\* What load_config returns: the default configuration when there is no
\* file, or the accounts of the file.
LoadedAccounts == {<<DefaultAcct>>, <<DefaultAcct, WorkAcct>>}

\* The lines typed at the prompts.
IdLines == {<<>>, <<"W">>, <<"p", " ", "q">>, <<"p", "-", "q">>}
DirLines == {<<>>, <<"/", "w", "/">>, <<"/", "a", ",", "b">>}
LabelLines == {<<>>}
ColorLines == {<<>>}
HotkeyLines == {<<>>}
\* A line of digits one character longer than int() converts.
OverlongDigits == [i \in 1..(IntMaxStrDigits + 1) |-> "1"]
ChoiceLines ==
    {<<>>, <<"x">>, <<"0">>, <<"1">>, <<"2">>, <<"3">>, <<"²">>,
     <<"0", "2">>, OverlongDigits}

\* The lines typed at the prompts of the setup program.
SetupFirstIdLines == {<<>>, <<"W">>}
SetupIdLines == {<<"W">>}
SetupDirLines == {<<>>}

\* The environment the launcher is started in: a plain shell, a session
\* an earlier launch started (all four variables set), and shells with
\* only one of the forbidden-directory variables left set.
ParentEnvs ==
    {opt_map([CLAUDE_ACCOUNT_FORBIDDEN_DIRS |-> e[1],
              CLAUDE_ACCOUNT_FORBIDDEN_DIR |-> e[2],
              CLAUDE_ACCOUNT |-> e[3],
              CLAUDE_CONFIG_DIR |-> e[4]]) :
        e \in {<<<<>>, <<>>, <<>>, <<>>>>,
               <<<<<<"/", "x", ",", "/", "y">>>>, <<<<"/", "x">>>>,
                 <<<<"W">>>>, <<<<"/", "x">>>>>>,
               <<<<>>, <<<<"/", "x">>>>, <<>>, <<>>>>,
               <<<<<<"/", "x", ",", "/", "y">>>>, <<>>, <<>>, <<>>>>}}

\* _input(prompt, default): the stripped line, or the default when it is
\* empty.  A default of None is written <<>>: the callers only test it for
\* truth.
_input(line, default) ==
    LET val == strip(line)
    IN IF Len(val) > 0 THEN val ELSE default

\* env[key] = value and env.pop(key, None) on a mapping.
set_key(m, key, value) ==
    [k \in DOMAIN m \cup {key} |-> IF k = key THEN value ELSE m[k]]
pop_key(m, key) == [k \in DOMAIN m \ {key} |-> m[k]]

\* launch: the environment handed to subprocess.run.
child_env(e, accts, i) ==
    LET acct == accts[i]
        f == compute_forbidden_dirs(accts, i)
        e1 == set_key(e, "CLAUDE_ACCOUNT", acct.id)
        e2 == IF Len(f) > 0
              THEN set_key(e1, "CLAUDE_ACCOUNT_FORBIDDEN_DIRS", join(",", f))
              ELSE pop_key(e1, "CLAUDE_ACCOUNT_FORBIDDEN_DIRS")
        e3 == IF Len(f) > 0
              THEN set_key(e2, "CLAUDE_ACCOUNT_FORBIDDEN_DIR", f[1])
              ELSE e2
        config_dir == resolve_config_dir(acct)
    IN IF truthy(config_dir)
       THEN set_key(e3, "CLAUDE_CONFIG_DIR", config_dir.v)
       ELSE pop_key(e3, "CLAUDE_CONFIG_DIR")

\* The launcher starts on an existing configuration, or the setup program
\* is run first.
InitLauncher ==
    /\ parent_env \in ParentEnvs
    /\ \/ pc = "main" /\ accounts \in LoadedAccounts
       \/ pc = "setup" /\ accounts = <<>>
    /\ config_file = <<>>
    /\ stderr = <<>>
    /\ launched = 0
    /\ forbidden = <<>>
    /\ env = <<>>
    /\ raw_dirs = <<>>
    /\ forbidden_list = <<>>
    /\ stdin_read = <<>>
    /\ matched = None
    /\ raised = <<>>
    /\ stdout = <<>>
    /\ exit_status = <<>>

gvars == <<env, raw_dirs, forbidden_list, stdin_read, matched, raised, stdout,
           exit_status>>

\* setup.py, ask(prompt, default): the stripped line, or the default.
ask(line, default) == IF Len(strip(line)) > 0 THEN strip(line) ELSE default

\* setup.py, setup_accounts: the account made of the answers for account
\* number i (from 0).  The first account has no configuration directory.
setup_account(i, id_line, dir_line) ==
    LET acct_id == replace(lower(ask(id_line,
                                     IF i = 0
                                     THEN <<"p", "e", "r", "s", "o", "n", "a", "l">>
                                     ELSE <<>>)),
                           " ", "-")
    IN [id |-> acct_id,
        label |-> title(acct_id),
        color |-> DEFAULT_COLORS[(i % Len(DEFAULT_COLORS)) + 1],
        config_dir |->
            IF i = 0 THEN None
            ELSE PyStr(ask(dir_line,
                           home_path(<<".", "c", "l", "a", "u", "d", "e", "-">>
                                     \o acct_id))),
        hotkey |-> <<acct_id[1]>>]

\* setup.py, setup_accounts and write_config: two or more accounts are
\* asked for (up to MaxAccounts here) and written to the configuration
\* file, with no test that their ids differ; the launcher then loads them.
Setup ==
    /\ pc = "setup"
    /\ \E n \in 2..MaxAccounts :
        \E first \in SetupFirstIdLines, ids \in [2..n -> SetupIdLines],
           dirs \in [2..n -> SetupDirLines] :
            accounts' = [i \in 1..n |->
                            IF i = 1 THEN setup_account(0, first, <<>>)
                            ELSE setup_account(i - 1, ids[i], dirs[i])]
    /\ config_file' = <<accounts'>>
    /\ pc' = "main"
    /\ UNCHANGED <<gvars, parent_env, stderr, launched, forbidden>>

\* main's re-entry guard: the positions of the accounts whose id is the
\* lowercased CLAUDE_ACCOUNT the launcher inherited.
ReentryMatches ==
    LET existing == lower(get(parent_env, "CLAUDE_ACCOUNT", <<>>))
    IN {i \in 1..Len(accounts) : Len(existing) > 0 /\ accounts[i].id = existing}

\* The first account with the id of the account at position k: main looks
\* the chosen id up from the start of the list.
first_with_id(k) ==
    CHOOSE i \in 1..Len(accounts) :
        /\ accounts[i].id = accounts[k].id
        /\ \A j \in 1..(i - 1) : accounts[j].id # accounts[k].id

\* The accounts main can call launch for: the first re-entry match, the
\* only account, or the first account with the id picked in the menu.
LaunchChoices ==
    IF pc = "main" /\ ReentryMatches # {}
    THEN {CHOOSE i \in ReentryMatches : \A j \in ReentryMatches : i <= j}
    ELSE {first_with_id(k) : k \in 1..Len(accounts)}

\* main: the picker is shown and "configure" is chosen.
OpenConfig ==
    /\ pc \in {"main", "picker"}
    /\ pc = "main" => ReentryMatches = {}
    /\ Len(accounts) > 1
    /\ pc' = "config"
    /\ UNCHANGED <<gvars, lvars>>

\* config_menu's "q", then main reloads the configuration.
Back ==
    /\ pc = "config"
    /\ pc' = "picker"
    /\ accounts' = IF config_file = <<>> THEN accounts ELSE config_file[1]
    /\ UNCHANGED <<gvars, parent_env, config_file, stderr, launched, forbidden>>

\* config_add_account, with save_config.
ConfigAdd ==
    /\ pc = "config"
    /\ \E id_line \in IdLines, label_line \in LabelLines,
          color_line \in ColorLines, dir_line \in DirLines,
          hotkey_line \in HotkeyLines :
        LET typed == _input(id_line, <<>>)
            acct_id == replace(lower(typed), " ", "-")
            idx == Len(accounts)
            hotkey == _input(hotkey_line, <<acct_id[1]>>)
            acct == [id |-> acct_id,
                     label |-> _input(label_line, title(acct_id)),
                     color |-> _input(color_line,
                                      DEFAULT_COLORS[(idx % Len(DEFAULT_COLORS)) + 1]),
                     config_dir |->
                         PyStr(_input(dir_line,
                                      home_path(<<".", "c", "l", "a", "u", "d", "e", "-">>
                                                \o acct_id))),
                     hotkey |-> IF Len(hotkey) > 0 THEN <<hotkey[1]>>
                                ELSE <<acct_id[1]>>]
        IN IF Len(typed) = 0
           THEN /\ stderr' = <<"Cancelled.">>
                /\ UNCHANGED <<accounts, config_file>>
           ELSE IF \E i \in 1..Len(accounts) : accounts[i].id = acct_id
           THEN /\ stderr' = <<"already exists.">>
                /\ UNCHANGED <<accounts, config_file>>
           ELSE /\ accounts' = Append(accounts, acct)
                /\ config_file' = <<accounts'>>
                /\ stderr' = <<"Saved", "Added account">>
    /\ UNCHANGED <<pc, gvars, parent_env, launched, forbidden>>

\* The list without its element at position i (accounts.pop).
pop_at(list, i) == SubSeq(list, 1, i - 1) \o SubSeq(list, i + 1, Len(list))

\* Mutant: the last account can be removed.
ConfigRemove_without_last_check ==
    /\ pc = "config"
    /\ IF FALSE
       THEN /\ stderr' = <<"Cannot remove the last account.">>
            /\ UNCHANGED <<pc, accounts, config_file>>
       ELSE \E choice_line \in ChoiceLines :
            LET choice == _input(choice_line, <<>>)
                idx == int(choice) - 1
            IN IF Len(choice) = 0 \/ ~isdigit(choice)
               THEN /\ stderr' = <<"Cancelled.">>
                    /\ UNCHANGED <<pc, accounts, config_file>>
               ELSE IF int_raises(choice)
               THEN /\ stderr' = <<"ValueError">>
                    /\ pc' = "crashed"
                    /\ UNCHANGED <<accounts, config_file>>
               ELSE IF idx < 0 \/ idx >= Len(accounts)
               THEN /\ stderr' = <<"Invalid choice.">>
                    /\ UNCHANGED <<pc, accounts, config_file>>
               ELSE /\ accounts' = pop_at(accounts, idx + 1)
                    /\ config_file' = <<accounts'>>
                    /\ stderr' = <<"Saved", "Removed account", "Note">>
                    /\ pc' = pc
    /\ UNCHANGED <<gvars, parent_env, launched, forbidden>>

\* config_remove_account, with save_config.  int(choice) raises ValueError
\* on a superscript digit, which isdigit() accepts: the launcher ends with a
\* traceback.
ConfigRemove ==
    /\ pc = "config"
    /\ IF Len(accounts) <= 1
       THEN /\ stderr' = <<"Cannot remove the last account.">>
            /\ UNCHANGED <<pc, accounts, config_file>>
       ELSE \E choice_line \in ChoiceLines :
            LET choice == _input(choice_line, <<>>)
                idx == int(choice) - 1
            IN IF Len(choice) = 0 \/ ~isdigit(choice)
               THEN /\ stderr' = <<"Cancelled.">>
                    /\ UNCHANGED <<pc, accounts, config_file>>
               ELSE IF int_raises(choice)
               THEN /\ stderr' = <<"ValueError">>
                    /\ pc' = "crashed"
                    /\ UNCHANGED <<accounts, config_file>>
               ELSE IF idx < 0 \/ idx >= Len(accounts)
               THEN /\ stderr' = <<"Invalid choice.">>
                    /\ UNCHANGED <<pc, accounts, config_file>>
               ELSE /\ accounts' = pop_at(accounts, idx + 1)
                    /\ config_file' = <<accounts'>>
                    /\ stderr' = <<"Saved", "Removed account", "Note">>
                    /\ pc' = pc
    /\ UNCHANGED <<gvars, parent_env, launched, forbidden>>

\* config_edit_account, with save_config.
ConfigEdit ==
    /\ pc = "config"
    /\ \E choice_line \in ChoiceLines :
        LET choice == _input(choice_line, <<>>)
            idx == int(choice) - 1
        IN IF Len(choice) = 0 \/ ~isdigit(choice)
           THEN /\ stderr' = <<"Cancelled.">>
                /\ UNCHANGED <<pc, accounts, config_file>>
           ELSE IF int_raises(choice)
           THEN /\ stderr' = <<"ValueError">>
                /\ pc' = "crashed"
                /\ UNCHANGED <<accounts, config_file>>
           ELSE IF idx < 0 \/ idx >= Len(accounts)
           THEN /\ stderr' = <<"Invalid choice.">>
                /\ UNCHANGED <<pc, accounts, config_file>>
           ELSE \E label_line \in LabelLines, color_line \in ColorLines,
                   dir_line \in DirLines, hotkey_line \in HotkeyLines :
                LET acct == accounts[idx + 1]
                    edited ==
                        [id |-> acct.id,
                         label |-> _input(label_line, acct.label),
                         color |-> _input(color_line, acct.color),
                         config_dir |->
                             IF acct.config_dir # None
                             THEN PyStr(_input(dir_line, acct.config_dir.v))
                             ELSE acct.config_dir,
                         hotkey |-> _input(hotkey_line, acct.hotkey)]
                IN /\ accounts' = [accounts EXCEPT ![idx + 1] = edited]
                   /\ config_file' = <<accounts'>>
                   /\ stderr' = <<"Saved", "Updated account">>
                   /\ pc' = pc
    /\ UNCHANGED <<gvars, parent_env, launched, forbidden>>

\* launch(cfg, acct, acct_index, extra_args): the child process gets the
\* computed environment; the guard runs in it as a hook.
Launch ==
    /\ pc \in {"main", "picker"}
    /\ \E i \in LaunchChoices :
        /\ launched' = i
        /\ forbidden' = compute_forbidden_dirs(accounts, i)
        /\ env' = child_env(parent_env, accounts, i)
    /\ pc' = "start"
    /\ UNCHANGED <<raw_dirs, forbidden_list, stdin_read, matched, raised, stdout,
                   exit_status, parent_env, accounts, config_file, stderr>>

NextLauncher ==
    \/ Setup
    \/ OpenConfig
    \/ ConfigAdd
    \/ ConfigRemove
    \/ ConfigEdit
    \/ Back
    \/ Launch
    \/ ReadConfig

SpecLauncher == InitLauncher /\ [][NextLauncher]_vars

(***************************************************************************)
(* Claims about the launcher.                                              *)
(***************************************************************************)
Launched == launched > 0

\* The configuration directory of an account: its resolved config_dir, or
\* ~/.claude when it has none.
DirOf(acct) ==
    IF acct.config_dir = None THEN home_path(DotClaude)
    ELSE path_resolve(acct.config_dir.v)

OwnDir == DirOf(accounts[launched])

\* The forbidden list has one entry per other account, in account order.
OneEntryPerOther ==
    forbidden = [k \in 1..(Len(accounts) - 1) |->
                    DirOf(accounts[IF k < launched THEN k ELSE k + 1])]

OwnDirForbidden == \E k \in 1..Len(forbidden) : forbidden[k] = OwnDir

SharesOwnDir ==
    \E j \in 1..Len(accounts) : j # launched /\ DirOf(accounts[j]) = OwnDir

\* C14 as stated: the forbidden list of a launch holds one entry per other
\* account and never contains the launched account's own directory.
C14_OwnDirNeverForbidden ==
    Launched => (OneEntryPerOther /\ ~OwnDirForbidden)

\* C14, amended: the forbidden list of a launch holds one entry per other
\* account, and it contains the launched account's own directory exactly
\* when another account has the same configuration directory.
C14_OwnDirForbiddenOnlyIfShared ==
    Launched => (OneEntryPerOther /\ (OwnDirForbidden <=> SharesOwnDir))

\* A launch among three accounts, one of which shares the launched
\* account's directory.
C14_Witness ==
    /\ Launched
    /\ Len(accounts) = 3
    /\ OwnDirForbidden
    /\ \E k \in 1..Len(forbidden) : forbidden[k] # OwnDir

\* C15: when the computed forbidden list of a launch is empty, neither
\* forbidden-directory variable is in the launched process's environment
\* and the guard reads no forbidden directory.
C15_EmptyListDisablesGuard ==
    (Launched /\ forbidden = <<>>) =>
        /\ "CLAUDE_ACCOUNT_FORBIDDEN_DIRS" \notin DOMAIN env
        /\ "CLAUDE_ACCOUNT_FORBIDDEN_DIR" \notin DOMAIN env
        /\ pc # "start" => raw_dirs = <<>>

\* C16: the list the guard parses from the launched process's environment
\* equals, element for element, the list the launcher computed.
C16_ParsedListIsComputedList ==
    (Launched /\ Len(forbidden) > 0 /\ pc # "start") => raw_dirs = forbidden

\* The messages of the rejected configuration operations.
Rejections ==
    {<<"Cancelled.">>, <<"already exists.">>,
     <<"Cannot remove the last account.">>, <<"Invalid choice.">>}

DistinctIds ==
    \A i, j \in 1..Len(accounts) : i # j => accounts[i].id # accounts[j].id

\* C17: a configuration-menu step taken on a non-empty account list with
\* pairwise distinct ids leaves the list non-empty with pairwise distinct
\* ids, and a step that ends in a rejection leaves the list and the
\* configuration file as they were.
C17_AccountListStaysValid ==
    [][pc = "config" =>
          /\ (Len(accounts) >= 1 /\ DistinctIds)
                => (Len(accounts') >= 1 /\ DistinctIds')
          /\ stderr' \in Rejections
                => (accounts' = accounts /\ config_file' = config_file)]_vars

\* The last account was refused removal after the list had shrunk to it.
C17_Witness ==
    /\ stderr = <<"Cannot remove the last account.">>
    /\ config_file # <<>>
    /\ Len(accounts) = 1
    /\ pc = "config"

====
